---- MODULE Spec2Model ----
\* Model of the distributed master/worker coordination of
\* src/self_driving_car/distributed_master.py, distributed_worker.py and
\* distributed_protocol.py: registry, round-robin distribution, deadline-bounded
\* collection and fitness assignment.
\*   Spec      the master: main thread, accept thread, network
\*   LiveSpec  one generation of the master, with fairness
\*   WireSpec  one send_message and one receive_message, byte by byte
\*   AckSpec   the accept thread and the distribution, sendall by sendall
\*   AgentSpec one worker process: connect and run
\*   StopSpec  the master with shutdown()
\*   AckLiveSpec    AckSpec with shutdown() and fair threads
\*   AgentLiveSpec  AgentSpec with a fair worker thread
\*   PollSpec  WireSpec with a reader whose recv can time out
EXTENDS Integers, Sequences, FiniteSets, TLC

\* ---------------------------------------------------------------- bounds
PopSize == 2            \* len(genomes); config.population_size, bounded
NumWorkers == 2         \* distinct worker ids that may register
NumAddr == 3            \* distinct values id(genome) can take
Generations == 2        \* the generations argument of train
MaxGarbage == 1         \* bodies a peer may write that run() never writes
MaxRegistrations == 2   \* REGISTER messages the accept thread handles
MaxInbox == 3           \* messages written to the connection of one worker
MaxShutdowns == 2       \* calls of DistributedMaster.shutdown

Workers == 1..NumWorkers
Addr == 1..NumAddr
Tasks == 0..(PopSize - 1)

Unset == -1             \* genome.fitness before any assignment (None)
NoKey == 0              \* genome_id field of a body that carries none

\* ---------------------------------------------------------------- state
VARIABLES
    pc,             \* position of the main thread (main / train)
    gen,            \* train: loop variable gen
    popgen,         \* number of run_generation calls so far (ghost)
    genome_ids,     \* id(genome) of each member of population.genomes
    fitness,        \* genome.fitness of each member
    workers,        \* self.workers: insertion-ordered worker ids
    worker_list,    \* distribute_genomes: snapshot list(self.workers.items())
    i,              \* distribute_genomes: loop index
    poll_list,      \* collect_results: snapshot of one polling pass
    j,              \* collect_results: position in the polling pass
    results,        \* self.results: genome_id -> fitness
    expired,        \* time.time() - start_time > timeout
    conn,           \* state of each worker's connection
    inflight,       \* TASK messages written to each worker and not yet answered
    garbage,        \* number of bodies read so far that run() never writes
    registrations,  \* number of REGISTER messages handled so far
    released,       \* workers whose registered socket the master has closed
    sentLog,        \* ghost: TASK messages sent in this round, in order
    sendFailed,     \* ghost: workers whose send raised in this round
    raised,         \* ghost: workers whose connection raised, not re-registered
    tasked,         \* ghost: workers sent a TASK in this generation
    loss,           \* ghost: per worker, "lost" once its connection failed or
                    \*   closed after it was sent a TASK, "seen" once a receive
                    \*   of the master met that failure or end-of-stream
    malformedFrom,  \* ghost: workers from which a malformed body was read
    arrived,        \* ghost: tasks of this generation whose RESULT was recorded
    endedBy,        \* ghost: how the last collection loop ended
    sentAfterRaise, \* ghost: a TASK send was attempted on a connection that raised
    failedIds,      \* ghost: ids whose recorded RESULT said success = false
    rounds,         \* ghost: generations that went through collect_results
    replaced,       \* ghost: per id, the fitness of the latest RESULT of this
                    \*   round that arrived when the id was already recorded
    visited,        \* ghost: the workers the current loop over a registry
                    \*   snapshot (round or polling pass) has visited, in order
    unlocked,       \* ghost: the places that accessed the registry while
                    \*   their thread did not hold the registry lock
    \* DistributedMaster.shutdown
    serving,        \* self.running of the master
    si,             \* shutdown: entries of self.workers.items() visited so far
    calls,          \* number of shutdown() calls so far
    stopLog,        \* ghost: the SHUTDOWN sends attempted by the current call
    \* one send_message and one receive_message on one connection
    msg_type,       \* send_message: argument msg_type
    data,           \* send_message: argument data
    spc,            \* position of the sender in send_message
    written,        \* the bytes sendall has written so far
    delivered,      \* how many of them have arrived at the receiving socket
    closed,         \* the sending peer is gone; what had not arrived is lost
    rpc,            \* position of the receiver in receive_message
    consumed,       \* how many bytes recv has returned so far
    length,         \* receive_message: length
    msg_bytes,      \* receive_message: msg_bytes
    ret,            \* what receive_message returned or raised
    prefixSplit,    \* ghost: recv(4) returned fewer than 4 bytes
    \* the accept thread and the sendall calls on each worker's socket
    apc,            \* position of the accept thread in _accept_workers
    client,         \* _accept_workers: the peer of client_socket
    worker_id,      \* _accept_workers: worker_id of the REGISTER it handles
    stream,         \* per worker: what sendall has written on its socket
    tpc,            \* position of the main thread in send_message for a TASK
    \* one DistributedWorker process
    wpc,            \* position of the worker in main / connect / run
    running,        \* self.running
    wconn,          \* state of the worker's connection to the master
    inbox,          \* messages written to the worker and not yet received
    fed,            \* number of messages written to the worker so far
    wmsg,           \* run: the TASK in msg while it is handled
    outbox,         \* the RESULT messages the worker has sent
    first_msg,      \* ghost: what the receive_message of connect gave
    log,            \* ghost: the messages run has received, in order
    last_read,      \* ghost: how the last receive_message of run ended
    midEval,        \* ghost: a SHUTDOWN arrived during an evaluation
    spin            \* ghost: parity of the receive_message calls of run

vars == <<pc, gen, popgen, genome_ids, fitness, workers, worker_list, i,
          poll_list, j, results, expired, conn, inflight, garbage,
          registrations, released, sentLog, sendFailed, raised, tasked, loss,
          malformedFrom, arrived, endedBy, sentAfterRaise, failedIds, rounds,
          replaced, visited, unlocked,
          serving, si, calls, stopLog,
          msg_type, data, spc, written, delivered, closed, rpc, consumed,
          length, msg_bytes, ret, prefixSplit, apc, client, worker_id, stream,
          tpc,
          wpc, running, wconn, inbox, fed, wmsg, outbox, first_msg, log,
          last_read, midEval, spin>>

\* the variables of the wire protocol
wireVars == <<msg_type, data, spc, written, delivered, closed, rpc, consumed,
              length, msg_bytes, ret, prefixSplit>>

\* the variables of the accept thread and of the sockets it shares
ackVars == <<apc, client, worker_id, stream, tpc>>

\* the variables of a worker process
agentVars == <<wpc, running, wconn, inbox, fed, wmsg, outbox, first_msg, log,
               last_read, midEval, spin>>

\* the variables of shutdown
stopVars == <<serving, si, calls, stopLog>>

\* what train and the accept thread of the master leave alone
sideVars == <<wireVars, ackVars, agentVars, stopVars>>

\* ---------------------------------------------------------------- helpers
Range(s) == {s[k] : k \in DOMAIN s}

SeqRemove(s, x) == SelectSeq(s, LAMBDA y : y # x)

\* the genome a task carries, told apart by generation and position; the
\* serialized genome_data stands for it
Genome(g, t) == g * PopSize + t + 1

\* evaluate_car_fitness: a positive score that depends on the genome only
EvaluateFitness(genome) == genome

\* objects alive at the same time have different id()
Injections == {f \in [Tasks -> Addr] : \A s, t \in Tasks : s # t => f[s] # f[t]}

EmptyResults == [a \in {} |-> 0]

\* self.results[genome_id] = fitness
DictSet_KeepFirst(d, k, v) ==
    [a \in (DOMAIN d) \cup {k} |-> IF a \in DOMAIN d THEN d[a] ELSE v]

DictSet(d, k, v) == [a \in (DOMAIN d) \cup {k} |-> IF a = k THEN v ELSE d[a]]

\* self.results.get(genome_id, 0.0)
DictGet(d, k, default) == IF k \in DOMAIN d THEN d[k] ELSE default

\* worker_list[i % num_workers]
TargetWorker_First(list, k) == list[1]

TargetWorker(list, k) == list[(k % Len(list)) + 1]

\* bodies: type is RESULT, HEARTBEAT, or a malformed body:
\*   "undecodable" (decode / json.loads raises),
\*   "misshaped"   (valid JSON, truthy, lacks the fields read),
\*   "empty"       (valid JSON that is falsy, such as {} or null)
\* success is the 'success' field of the data of a RESULT: "absent" in what
\* DistributedWorker.run writes, "false" in the RESULT of a peer that reports
\* a failed evaluation
ResultMsg(id, f) ==
    [type |-> "RESULT", genome_id |-> id, fitness |-> f, success |-> "absent"]
FailedResultMsg(id, f) ==
    [type |-> "RESULT", genome_id |-> id, fitness |-> f, success |-> "false"]
OtherMsg(kind) ==
    [type |-> kind, genome_id |-> NoKey, fitness |-> 0, success |-> "absent"]
GarbageKinds == {"HEARTBEAT", "undecodable", "misshaped", "empty"}

TaskMsg(id, g) == [genome_id |-> id, genome_data |-> g]

\* DistributedWorker.run on a TASK: evaluate the genome and send a RESULT
\* with the genome_id of the TASK
WorkerAnswer(task) ==
    ResultMsg(task.genome_id, EvaluateFitness(task.genome_data))

\* the RESULT of a peer whose evaluation of the task failed: success = false
\* beside the score reached before the failure
FailedAnswer(task) ==
    FailedResultMsg(task.genome_id, EvaluateFitness(task.genome_data))

\* the bodies DistributedWorker.run writes: a RESULT with no success field
WrittenByRun(body) == body.type = "RESULT" /\ body.success = "absent"

\* what the socket of w can yield to one receive of the master: an error, a
\* timeout, end-of-stream, or the next frame: the worker's answer to its
\* oldest TASK, a peer's failed RESULT for it, or a body that is no RESULT
SocketReads(w) ==
    IF conn[w] = "broken" THEN {[kind |-> "error", body |-> OtherMsg("none")]}
    ELSE (IF conn[w] = "open"
          THEN {[kind |-> "timeout", body |-> OtherMsg("none")]}
               \cup (IF garbage < MaxGarbage
                     THEN {[kind |-> "frame", body |-> OtherMsg(k)] :
                              k \in GarbageKinds}
                     ELSE {})
          ELSE {[kind |-> "eof", body |-> OtherMsg("none")]})
         \cup (IF inflight[w] # <<>>
               THEN {[kind |-> "frame", body |-> WorkerAnswer(Head(inflight[w]))]}
                    \cup (IF garbage < MaxGarbage
                          THEN {[kind |-> "frame",
                                 body |-> FailedAnswer(Head(inflight[w]))]}
                          ELSE {})
               ELSE {})

\* receive_message: None at end-of-stream, the parsed body of a frame, or
\* the exception of recv, decode or json.loads
ReceiveMessage(rd) ==
    IF rd.kind = "error" THEN [out |-> "raise", msg |-> rd.body]
    ELSE IF rd.kind = "timeout" THEN [out |-> "timeout", msg |-> rd.body]
    ELSE IF rd.kind = "eof" THEN [out |-> "none", msg |-> rd.body]
    ELSE IF rd.body.type = "undecodable" THEN [out |-> "raise", msg |-> rd.body]
    ELSE [out |-> "msg", msg |-> rd.body]

\* outcomes of sendall on w's connection; it raises on a socket the
\* master has closed
SendOutcomes(w) ==
    IF w \in released THEN {"raise"}
    ELSE IF conn[w] = "open" THEN {"ok"}
    ELSE IF conn[w] = "broken" THEN {"raise"}
    ELSE {"ok", "raise"}

\* ---------------------------------------------------------------- wire protocol: the body
\* text is a sequence of one-character strings, bytes are 0..255

\* the characters the messages of the model are written with, and their
\* code points (all ASCII: json.dumps escapes every other character)
AsciiChars ==
    <<" ", "\"", ",", "-", "0", "1", "2", "3", "4", "5", "6", "7", "8", "9",
      ":", "A", "B", "D", "E", "G", "H", "I", "K", "L", "N", "O", "R", "S",
      "T", "U", "W", "a", "d", "e", "f", "i", "k", "l", "n", "p", "r", "s",
      "t", "u", "y", "{", "}">>

AsciiCodes ==
    <<32, 34, 44, 45, 48, 49, 50, 51, 52, 53, 54, 55, 56, 57,
      58, 65, 66, 68, 69, 71, 72, 73, 75, 76, 78, 79, 82, 83,
      84, 85, 87, 97, 100, 101, 102, 105, 107, 108, 110, 112, 114, 115,
      116, 117, 121, 123, 125>>

\* class Message
Message_REGISTER == <<"R", "E", "G", "I", "S", "T", "E", "R">>
Message_TASK == <<"T", "A", "S", "K">>
Message_RESULT == <<"R", "E", "S", "U", "L", "T">>
Message_SHUTDOWN == <<"S", "H", "U", "T", "D", "O", "W", "N">>
Message_HEARTBEAT == <<"H", "E", "A", "R", "T", "B", "E", "A", "T">>

MessageKinds == {Message_REGISTER, Message_TASK, Message_RESULT,
                 Message_SHUTDOWN, Message_HEARTBEAT}

\* JSON values: an integer, a string, a literal (null, true, false) or an
\* object, the ordered sequence of its members (a dict keeps insertion order)
JInt(n) == [int |-> n]
JStr(s) == [str |-> s]
JLit(x) == [lit |-> x]
JObj(members) == [obj |-> members]
Member(k, v) == [key |-> k, val |-> v]

IsInt(v) == DOMAIN v = {"int"}
IsStr(v) == DOMAIN v = {"str"}
IsLit(v) == DOMAIN v = {"lit"}
IsObj(v) == DOMAIN v = {"obj"}

\* str.encode('utf-8') of ASCII text: one byte per character, its code point
Utf8Encode(text) == [k \in 1..Len(text) |->
    AsciiCodes[CHOOSE n \in DOMAIN AsciiChars : AsciiChars[n] = text[k]]]

\* bytes.decode('utf-8'): UnicodeDecodeError on a byte that starts no
\* character of the alphabet
Utf8Valid(bytes) == \A k \in DOMAIN bytes : bytes[k] \in Range(AsciiCodes)

Utf8Decode(bytes) == [k \in 1..Len(bytes) |->
    AsciiChars[CHOOSE n \in DOMAIN AsciiCodes : AsciiCodes[n] = bytes[k]]]

\* length.to_bytes(4, 'big')
ToBytes_Little(n) ==
    <<n % 256, (n \div 256) % 256, (n \div 65536) % 256, (n \div 16777216) % 256>>

ToBytes(n) ==
    <<(n \div 16777216) % 256, (n \div 65536) % 256, (n \div 256) % 256, n % 256>>

\* int.from_bytes(length_bytes, 'big'), for any number of bytes
RECURSIVE FromBytes(_)
FromBytes(bytes) ==
    IF bytes = <<>> THEN 0
    ELSE 256 * FromBytes(SubSeq(bytes, 1, Len(bytes) - 1)) + bytes[Len(bytes)]

\* ---- json.dumps with the default separators
Digits == <<"0", "1", "2", "3", "4", "5", "6", "7", "8", "9">>

RECURSIVE NatText(_)
NatText(n) ==
    IF n < 10 THEN <<Digits[n + 1]>>
    ELSE NatText(n \div 10) \o <<Digits[(n % 10) + 1]>>

IntText(n) == IF n < 0 THEN <<"-">> \o NatText(-n) ELSE NatText(n)

StrText(s) == <<"\"">> \o s \o <<"\"">>

LitText(x) ==
    IF x = "null" THEN <<"n", "u", "l", "l">>
    ELSE IF x = "true" THEN <<"t", "r", "u", "e">>
    ELSE <<"f", "a", "l", "s", "e">>

RECURSIVE JsonDumps(_)
RECURSIVE MembersText(_)
MembersText(members) ==
    IF members = <<>> THEN <<>>
    ELSE StrText(Head(members).key) \o <<":", " ">>
         \o JsonDumps(Head(members).val)
         \o (IF Tail(members) = <<>> THEN <<>>
             ELSE <<",", " ">> \o MembersText(Tail(members)))

JsonDumps(v) ==
    IF IsInt(v) THEN IntText(v.int)
    ELSE IF IsStr(v) THEN StrText(v.str)
    ELSE IF IsLit(v) THEN LitText(v.lit)
    ELSE <<"{">> \o MembersText(v.obj) \o <<"}">>

\* ---- json.loads: a value with nothing but spaces around it, or ValueError
ParseFail == [ok |-> FALSE, val |-> JLit("null"), pos |-> 0]
Parsed(v, p) == [ok |-> TRUE, val |-> v, pos |-> p]

RECURSIVE SkipSpaces(_, _)
SkipSpaces(s, p) ==
    IF p <= Len(s) /\ s[p] = " " THEN SkipSpaces(s, p + 1) ELSE p

\* the position after the run of digits that starts at p
RECURSIVE DigitsEnd(_, _)
DigitsEnd(s, p) ==
    IF p <= Len(s) /\ s[p] \in Range(Digits) THEN DigitsEnd(s, p + 1) ELSE p

DigitValue(c) == (CHOOSE n \in DOMAIN Digits : Digits[n] = c) - 1

RECURSIVE NatValue(_)
NatValue(text) ==
    IF text = <<>> THEN 0
    ELSE 10 * NatValue(SubSeq(text, 1, Len(text) - 1))
         + DigitValue(text[Len(text)])

\* -?(0|[1-9][0-9]*)
ParseNumber(s, p) ==
    LET q == IF s[p] = "-" THEN p + 1 ELSE p
        e == IF q <= Len(s) /\ s[q] = "0" THEN q + 1 ELSE DigitsEnd(s, q)
    IN  IF e = q THEN ParseFail
        ELSE Parsed(JInt(IF q = p THEN NatValue(SubSeq(s, q, e - 1))
                         ELSE -NatValue(SubSeq(s, q, e - 1))), e)

\* the characters between the quote at p and the next quote
ParseString(s, p) ==
    LET closing == {q \in (p + 1)..Len(s) : s[q] = "\""}
    IN  IF closing = {} THEN ParseFail
        ELSE LET q == CHOOSE x \in closing : \A y \in closing : x <= y
             IN  Parsed(JStr(SubSeq(s, p + 1, q - 1)), q + 1)

ParseLiteral(s, p) ==
    LET Match(x) == /\ p + Len(LitText(x)) - 1 <= Len(s)
                    /\ SubSeq(s, p, p + Len(LitText(x)) - 1) = LitText(x)
    IN  IF Match("null") THEN Parsed(JLit("null"), p + 4)
        ELSE IF Match("true") THEN Parsed(JLit("true"), p + 4)
        ELSE IF Match("false") THEN Parsed(JLit("false"), p + 5)
        ELSE ParseFail

RECURSIVE ParseValue(_, _)
RECURSIVE ParseMembers(_, _, _)
\* after "{" or ",": a key, a colon, a value, then "," or "}"
ParseMembers(s, p0, acc) ==
    LET p == SkipSpaces(s, p0) IN
    IF p > Len(s) \/ s[p] # "\"" THEN ParseFail
    ELSE LET k == ParseString(s, p) IN
         IF ~k.ok THEN ParseFail
         ELSE LET c == SkipSpaces(s, k.pos) IN
              IF c > Len(s) \/ s[c] # ":" THEN ParseFail
              ELSE LET v == ParseValue(s, c + 1) IN
                   IF ~v.ok THEN ParseFail
                   ELSE LET e == SkipSpaces(s, v.pos)
                            more == Append(acc, Member(k.val.str, v.val))
                        IN  IF e > Len(s) THEN ParseFail
                            ELSE IF s[e] = "}" THEN Parsed(JObj(more), e + 1)
                            ELSE IF s[e] = "," THEN ParseMembers(s, e + 1, more)
                            ELSE ParseFail

ParseValue(s, p0) ==
    LET p == SkipSpaces(s, p0) IN
    IF p > Len(s) THEN ParseFail
    ELSE IF s[p] = "{"
         THEN LET q == SkipSpaces(s, p + 1) IN
              IF q <= Len(s) /\ s[q] = "}" THEN Parsed(JObj(<<>>), q + 1)
              ELSE ParseMembers(s, p + 1, <<>>)
    ELSE IF s[p] = "\"" THEN ParseString(s, p)
    ELSE IF s[p] = "-" \/ s[p] \in Range(Digits) THEN ParseNumber(s, p)
    ELSE ParseLiteral(s, p)

JsonLoads(text) ==
    LET v == ParseValue(text, 1) IN
    IF v.ok /\ SkipSpaces(text, v.pos) = Len(text) + 1 THEN v ELSE ParseFail

\* ---- the messages and payloads the wire protocol is exercised with
MaxNumber == 120        \* largest magnitude of an integer in a payload

Key_type == <<"t", "y", "p", "e">>
Key_data == <<"d", "a", "t", "a">>

\* mappings with string keys and JSON-representable values
Payloads ==
    {JObj(<<>>)}
    \cup {JObj(<<Member(<<"k">>, JInt(n))>>) : n \in {0, MaxNumber, -MaxNumber}}
    \cup {JObj(<<Member(<<"i", "d">>, JInt(7)), Member(<<"k">>, v)>>) :
             v \in {JStr(<<"a", "k">>), JStr(<<>>), JLit("null"), JLit("true")}}
    \cup {JObj(<<Member(<<"k">>, JObj(<<Member(<<"i", "d">>, JLit("false"))>>)),
                 Member(<<"a">>, JObj(<<>>))>>)}

\* the truth value of a JSON value in Python
Falsy(v) ==
    \/ IsObj(v) /\ v.obj = <<>>
    \/ IsStr(v) /\ v.str = <<>>
    \/ IsInt(v) /\ v.int = 0
    \/ IsLit(v) /\ v.lit \in {"null", "false"}

\* create_message: json.dumps({'type': msg_type, 'data': data or {}})
CreateMessage(kind, payload) ==
    JsonDumps(JObj(<<Member(Key_type, JStr(kind)),
                     Member(Key_data, IF Falsy(payload) THEN JObj(<<>>)
                                      ELSE payload)>>))

\* msg[key] of a parsed object
HasKey(v, k) == IsObj(v) /\ \E n \in DOMAIN v.obj : v.obj[n].key = k
Get(v, k) == v.obj[CHOOSE n \in DOMAIN v.obj : v.obj[n].key = k].val

\* the state before send_message(sock, kind, payload) and receive_message(sock)
Pending == [out |-> "pending", val |-> JLit("null"), err |-> "none"]

WireStart(kind, payload) ==
    /\ msg_type = kind
    /\ data = payload
    /\ spc = "prefix"
    /\ written = <<>>
    /\ delivered = 0
    /\ closed = FALSE
    /\ rpc = "prefix"
    /\ consumed = 0
    /\ length = 0
    /\ msg_bytes = <<>>
    /\ ret = Pending
    /\ prefixSplit = FALSE

\* ---------------------------------------------------------------- initial state
\* the state after DistributedMaster() and start_server(); addresses are
\* interchangeable, the first population's are named 1..PopSize
MasterInit ==
    /\ pc = "wait"
    /\ gen = 0
    /\ popgen = 0
    /\ genome_ids = [t \in Tasks |-> t + 1]
    /\ fitness = [t \in Tasks |-> Unset]
    /\ workers = <<>>
    /\ worker_list = <<>>
    /\ i = 0
    /\ poll_list = <<>>
    /\ j = 0
    /\ results = EmptyResults
    /\ expired = FALSE
    /\ conn = [w \in Workers |-> "closed"]
    /\ inflight = [w \in Workers |-> <<>>]
    /\ garbage = 0
    /\ registrations = 0
    /\ released = {}
    /\ sentLog = <<>>
    /\ sendFailed = {}
    /\ raised = {}
    /\ tasked = {}
    /\ loss = [w \in Workers |-> "none"]
    /\ malformedFrom = {}
    /\ arrived = {}
    /\ endedBy = "none"
    /\ sentAfterRaise = FALSE
    /\ failedIds = {}
    /\ rounds = 0
    /\ replaced = EmptyResults
    /\ visited = <<>>
    /\ unlocked = {}

\* start_server has set self.running; shutdown was not called
StopStart ==
    /\ serving = TRUE
    /\ si = 0
    /\ calls = 0
    /\ stopLog = <<>>

\* the accept thread waits in accept(); nothing is written yet
AckStart ==
    /\ apc = "accept"
    /\ client = 1
    /\ worker_id = 1
    /\ stream = [w \in Workers |-> <<>>]
    /\ tpc = "prefix"

\* parsed messages on the worker's connection: type is a Message kind or a
\* malformed body ("undecodable", "misshaped", "empty" as above); status and
\* track are data['status'] and the presence of data['track_name']; quality
\* tells whether deserialize_genome and evaluate_car_fitness succeed on the
\* genome_data of a TASK
AgentMsg(kind) ==
    [type |-> kind, genome_id |-> NoKey, genome_data |-> 0,
     quality |-> "good", status |-> "absent", track |-> FALSE]

AckMsgs ==
    {[AgentMsg("REGISTER") EXCEPT !.status = st, !.track = tr] :
        st \in {"accepted", "rejected", "absent"}, tr \in BOOLEAN}

TaskMsgs(id) ==
    {[AgentMsg("TASK") EXCEPT !.genome_id = id, !.genome_data = id,
                              !.quality = q] :
        q \in {"good", "bad_data", "bad_eval"}}

NoMsg == AgentMsg("none")

\* DistributedWorker(): connected, REGISTER sent, waiting for the
\* acknowledgment
AgentStart ==
    /\ wpc = "connect"
    /\ running = FALSE
    /\ wconn = "open"
    /\ inbox = <<>>
    /\ fed = 0
    /\ wmsg = NoMsg
    /\ outbox = <<>>
    /\ first_msg = AgentMsg("pending")
    /\ log = <<>>
    /\ last_read = "none"
    /\ midEval = FALSE
    /\ spin = 0

Init ==
    /\ MasterInit
    /\ StopStart
    /\ WireStart(Message_HEARTBEAT, JObj(<<>>))
    /\ AckStart
    /\ AgentStart

\* ---------------------------------------------------------------- main thread
coordVars == <<pc, gen, popgen, genome_ids, fitness, worker_list, i,
               poll_list, j, results, expired>>
netVars == <<conn, inflight, garbage, registrations, released>>
roundGhosts == <<sentLog, sendFailed, raised, tasked, loss, malformedFrom,
                 arrived, endedBy, sentAfterRaise, failedIds, rounds, replaced,
                 visited>>
ghostVars == <<roundGhosts, unlocked>>

\* the registry lock is held for the whole distribution loop, for each
\* polling pass and for the loop of shutdown
LockHeld == pc \in {"dist", "poll", "shutdown"}

\* a registry access at a place, by a thread that holds the lock or not
Touch(place, held) == IF held THEN unlocked ELSE unlocked \cup {place}

\* main: while not master.workers: sleep, outside any with block; then
\* train creates the population
StartTrain ==
    /\ pc = "wait"
    /\ workers # <<>>
    /\ pc' = "idle"
    /\ unlocked' = Touch("main", LockHeld)
    /\ UNCHANGED <<gen, popgen, genome_ids, fitness, workers, worker_list, i,
                   poll_list, j, results, expired>>
    /\ UNCHANGED netVars
    /\ UNCHANGED roundGhosts
    /\ UNCHANGED sideVars

\* distribute_genomes up to the first send: clear the results, take the
\* lock, fail on an empty registry (train then sleeps and continues with the
\* next value of gen), else snapshot the registry
Distribute_Begin ==
    /\ pc = "idle"
    /\ gen < Generations
    /\ results' = EmptyResults
    /\ IF workers = <<>>
       THEN /\ pc' = "idle"
            /\ gen' = gen + 1
            /\ UNCHANGED <<worker_list, i>>
       ELSE /\ pc' = "dist"
            /\ worker_list' = workers
            /\ i' = 0
            /\ UNCHANGED gen
    /\ failedIds' = {}
    /\ replaced' = EmptyResults
    /\ visited' = <<>>
    /\ UNCHANGED <<popgen, genome_ids, fitness, workers, poll_list, j, expired>>
    /\ UNCHANGED netVars
    /\ UNCHANGED <<sentLog, sendFailed, raised, tasked, loss, malformedFrom,
                   arrived, endedBy, sentAfterRaise, rounds, unlocked>>
    /\ UNCHANGED sideVars

\* one iteration of the distribution loop: send task i to its worker; a
\* send that raises runs del self.workers[worker_id], which raises KeyError
\* out of the handler when the worker was deleted earlier in the round
Distribute_Send ==
    /\ pc = "dist"
    /\ i < PopSize
    /\ LET w == TargetWorker(worker_list, i) IN
       \E o \in SendOutcomes(w) :
          /\ sentAfterRaise' = (sentAfterRaise \/ w \in raised)
          /\ visited' = Append(visited, w)
          /\ IF o = "ok"
             THEN /\ sentLog' = Append(sentLog,
                        [task |-> i, worker |-> w, genome_id |-> genome_ids[i]])
                  /\ inflight' = IF conn[w] = "open"
                                 THEN [inflight EXCEPT ![w] = Append(@,
                                         TaskMsg(genome_ids[i], Genome(popgen, i)))]
                                 ELSE inflight
                  /\ tasked' = tasked \cup {w}
                  /\ i' = i + 1
                  /\ UNCHANGED <<pc, workers, sendFailed, raised>>
             ELSE /\ sendFailed' = sendFailed \cup {w}
                  /\ raised' = raised \cup {w}
                  /\ IF w \in Range(workers)
                     THEN /\ workers' = SeqRemove(workers, w)
                          /\ i' = i + 1
                          /\ UNCHANGED pc
                     ELSE /\ pc' = "crashed"
                          /\ UNCHANGED <<workers, i>>
                  /\ UNCHANGED <<sentLog, inflight, tasked>>
    /\ UNCHANGED <<gen, popgen, genome_ids, fitness, worker_list, poll_list, j,
                   results, expired>>
    /\ UNCHANGED <<conn, garbage, registrations, released>>
    /\ unlocked' = Touch("distribute", LockHeld)
    /\ UNCHANGED <<loss, malformedFrom, arrived, endedBy, failedIds, rounds,
                   replaced>>
    /\ UNCHANGED sideVars

\* for i, genome in enumerate(genomes) is exhausted after k iterations
AllSent_Early(k) == k >= 1

AllSent(k) == k = PopSize

\* return True: the locals go, the lock is released; collect_results takes
\* start_time
Distribute_End ==
    /\ pc = "dist"
    /\ AllSent(i)
    /\ pc' = "check"
    /\ expired' = FALSE
    /\ worker_list' = <<>>
    /\ i' = 0
    /\ sentLog' = <<>>
    /\ sendFailed' = {}
    /\ visited' = <<>>
    /\ UNCHANGED <<gen, popgen, genome_ids, fitness, workers, poll_list, j,
                   results>>
    /\ UNCHANGED netVars
    /\ UNCHANGED <<raised, tasked, loss, malformedFrom, arrived, endedBy,
                   sentAfterRaise, failedIds, rounds, replaced, unlocked>>
    /\ UNCHANGED sideVars

\* if time.time() - start_time > timeout: break
Deadline_Never(e) == FALSE

Deadline(e) == e

\* genome.fitness = self.results.get(id(genome), 0.0)
AssignedFitness_KeepOld(res, ids, fit, t) ==
    IF ids[t] \in DOMAIN res THEN res[ids[t]] ELSE fit[t]

AssignedFitness(res, ids, fit, t) == DictGet(res, ids[t], 0)

\* top of the while loop of collect_results: leave when enough results are
\* recorded or the deadline has elapsed, and then assign every genome its
\* fitness; else take the lock and snapshot the registry for one pass
Collect_Check ==
    /\ pc = "check"
    /\ IF Cardinality(DOMAIN results) >= PopSize \/ Deadline(expired)
       THEN /\ pc' = "advance"
            /\ endedBy' = IF Cardinality(DOMAIN results) >= PopSize
                          THEN "complete" ELSE "deadline"
            /\ fitness' = [t \in Tasks |->
                              AssignedFitness(results, genome_ids, fitness, t)]
            /\ expired' = FALSE
            /\ UNCHANGED <<poll_list, j>>
       ELSE /\ poll_list' = IF workers = <<>> THEN poll_list ELSE workers
            /\ pc' = IF workers = <<>> THEN "check" ELSE "poll"
            /\ UNCHANGED <<j, endedBy, fitness, expired>>
    /\ visited' = <<>>
    /\ UNCHANGED <<gen, popgen, genome_ids, workers, worker_list, i, results>>
    /\ UNCHANGED netVars
    /\ UNCHANGED <<sentLog, sendFailed, raised, tasked, loss, malformedFrom,
                   arrived, sentAfterRaise, failedIds, rounds, replaced,
                   unlocked>>
    /\ UNCHANGED sideVars

\* the truth value of a parsed body in "if msg and ..."
Truthy(msg) == msg.type # "empty"

\* except Exception: del self.workers[worker_id]; reached when
\* receive_message raises or when reading msg['type'] or msg['data'][...]
\* of a truthy body raises
Evicts(r) ==
    \/ r.out = "raise"
    \/ r.out = "msg" /\ Truthy(r.msg) /\ r.msg.type = "misshaped"

\* if msg and msg['type'] == Message.RESULT
Records(r) == r.out = "msg" /\ Truthy(r.msg) /\ r.msg.type = "RESULT"

\* for worker_id, worker_socket in list(self.workers.items()): the loop
\* walks the copy taken when it started, not the live mapping
IterationList_Live(copy, live) == live

IterationList(copy, live) == copy

\* one iteration of a polling pass: receive from the next worker of the
\* snapshot with a 0.1 s timeout
Collect_Poll ==
    /\ pc = "poll"
    /\ j < Len(IterationList(poll_list, workers))
    /\ LET w == IterationList(poll_list, workers)[j + 1] IN
       \E rd \in SocketReads(w) :
          LET r == ReceiveMessage(rd) IN
          /\ inflight' = IF rd.kind = "eof" THEN [inflight EXCEPT ![w] = <<>>]
                         ELSE IF rd.kind = "frame" /\ rd.body.type = "RESULT"
                         THEN [inflight EXCEPT ![w] = Tail(@)]
                         ELSE inflight
          /\ garbage' = IF rd.kind = "frame" /\ ~WrittenByRun(rd.body)
                        THEN garbage + 1 ELSE garbage
          /\ workers' = IF Evicts(r) THEN SeqRemove(workers, w) ELSE workers
          /\ raised' = IF Evicts(r) THEN raised \cup {w} ELSE raised
          /\ loss' = IF rd.kind \in {"eof", "error"} /\ loss[w] = "lost"
                     THEN [loss EXCEPT ![w] = "seen"] ELSE loss
          /\ malformedFrom' =
                IF rd.kind = "frame"
                   /\ rd.body.type \in {"undecodable", "misshaped", "empty"}
                THEN malformedFrom \cup {w} ELSE malformedFrom
          /\ results' = IF Records(r)
                        THEN DictSet(results, r.msg.genome_id, r.msg.fitness)
                        ELSE results
          /\ arrived' = IF Records(r)
                        THEN arrived \cup
                             {t \in Tasks :
                                /\ genome_ids[t] = r.msg.genome_id
                                /\ r.msg.fitness =
                                     EvaluateFitness(Genome(popgen, t))}
                        ELSE arrived
          /\ failedIds' = IF ~Records(r) THEN failedIds
                          ELSE IF r.msg.success = "false"
                          THEN failedIds \cup {r.msg.genome_id}
                          ELSE failedIds \ {r.msg.genome_id}
          /\ replaced' = IF Records(r) /\ r.msg.genome_id \in DOMAIN results
                         THEN [a \in (DOMAIN replaced) \cup {r.msg.genome_id} |->
                                 IF a = r.msg.genome_id THEN r.msg.fitness
                                 ELSE replaced[a]]
                         ELSE replaced
          /\ visited' = Append(visited, w)
    /\ IF j + 1 >= Len(IterationList(poll_list, workers'))
       THEN pc' = "check" /\ poll_list' = <<>> /\ j' = 0
       ELSE pc' = "poll" /\ j' = j + 1 /\ UNCHANGED poll_list
    /\ UNCHANGED <<gen, popgen, genome_ids, fitness, worker_list, i, expired>>
    /\ UNCHANGED <<conn, registrations, released>>
    /\ unlocked' = Touch("collect", LockHeld)
    /\ UNCHANGED <<sentLog, sendFailed, tasked, endedBy, sentAfterRaise, rounds>>
    /\ UNCHANGED sideVars

\* train after collect_results: population.run_generation replaces the
\* genomes by new objects except in the last generation; then the next value
\* of gen
Advance ==
    /\ pc = "advance"
    /\ IF gen < Generations - 1
       THEN /\ genome_ids' \in Injections
            /\ popgen' = popgen + 1
            /\ fitness' = [t \in Tasks |-> Unset]
       ELSE UNCHANGED <<genome_ids, popgen, fitness>>
    /\ gen' = gen + 1
    /\ pc' = "idle"
    /\ arrived' = {}
    /\ endedBy' = "none"
    /\ tasked' = {}
    /\ loss' = [w \in Workers |-> "none"]
    /\ rounds' = rounds + 1
    /\ UNCHANGED <<workers, worker_list, i, poll_list, j, results, expired>>
    /\ UNCHANGED netVars
    /\ UNCHANGED <<sentLog, sendFailed, raised, malformedFrom, sentAfterRaise,
                   failedIds, replaced, visited, unlocked>>
    /\ UNCHANGED sideVars

\* the for loop of train is exhausted
Finish ==
    /\ pc = "idle"
    /\ gen = Generations
    /\ pc' = "done"
    /\ UNCHANGED <<gen, popgen, genome_ids, fitness, workers, worker_list, i,
                   poll_list, j, results, expired>>
    /\ UNCHANGED netVars
    /\ UNCHANGED ghostVars
    /\ UNCHANGED sideVars

\* the wall clock passes the collection deadline
Tick ==
    /\ pc \in {"check", "poll"}
    /\ ~expired
    /\ expired' = TRUE
    /\ UNCHANGED <<pc, gen, popgen, genome_ids, fitness, workers, worker_list,
                   i, poll_list, j, results>>
    /\ UNCHANGED netVars
    /\ UNCHANGED ghostVars
    /\ UNCHANGED sideVars

\* ---------------------------------------------------------------- accept thread
\* _accept_workers: a worker connects and sends REGISTER; the thread inserts
\* its new socket under the registry lock
Register(w) ==
    /\ serving
    /\ pc \in {"wait", "idle", "check", "advance"}
    /\ ~LockHeld
    /\ conn[w] # "open"
    /\ registrations < MaxRegistrations
    /\ registrations' = registrations + 1
    /\ conn' = [conn EXCEPT ![w] = "open"]
    /\ inflight' = [inflight EXCEPT ![w] = <<>>]
    /\ workers' = IF w \in Range(workers) THEN workers ELSE Append(workers, w)
    /\ raised' = raised \ {w}
    /\ tasked' = tasked \ {w}
    /\ loss' = [loss EXCEPT ![w] = "none"]
    /\ malformedFrom' = malformedFrom \ {w}
    /\ released' = released \ {w}
    /\ UNCHANGED coordVars
    /\ UNCHANGED garbage
    /\ UNCHANGED <<sentLog, sendFailed, arrived, endedBy, sentAfterRaise,
                   failedIds, rounds, replaced, visited, unlocked>>
    /\ UNCHANGED sideVars

\* ---------------------------------------------------------------- network
\* the worker ends or the connection breaks: "closed" lets the master read
\* what was written and then end-of-stream, "broken" makes its calls raise
ConnectionFails(w, how) ==
    /\ conn[w] = "open"
    /\ conn' = [conn EXCEPT ![w] = how]
    /\ inflight' = IF how = "broken" THEN [inflight EXCEPT ![w] = <<>>]
                   ELSE inflight
    /\ loss' = IF w \in tasked THEN [loss EXCEPT ![w] = "lost"] ELSE loss
    /\ UNCHANGED coordVars
    /\ UNCHANGED <<workers, garbage, registrations, released>>
    /\ UNCHANGED <<sentLog, sendFailed, raised, tasked, malformedFrom, arrived,
                   endedBy, sentAfterRaise, failedIds, rounds, replaced, visited,
                   unlocked>>
    /\ UNCHANGED sideVars

\* ---------------------------------------------------------------- shutdown
offMaster == <<wireVars, ackVars, agentVars>>

\* main: finally: master.shutdown(), after train returned or raised and on
\* KeyboardInterrupt anywhere in the try block (leaving a with block
\* releases the registry lock and the locals of train go); a later call is
\* one more shutdown() on the same object. self.running = False, then the
\* loop over self.workers.items() starts under the registry lock; the
\* history kept of train ends here
Shutdown_Begin ==
    /\ pc # "shutdown"
    /\ calls < MaxShutdowns
    /\ pc' = "shutdown"
    /\ serving' = FALSE
    /\ si' = 0
    /\ calls' = calls + 1
    /\ worker_list' = <<>>
    /\ i' = 0
    /\ poll_list' = <<>>
    /\ j' = 0
    /\ expired' = FALSE
    /\ sentLog' = <<>>
    /\ sendFailed' = {}
    /\ raised' = {}
    /\ tasked' = {}
    /\ loss' = [w \in Workers |-> "none"]
    /\ malformedFrom' = {}
    /\ arrived' = {}
    /\ endedBy' = "none"
    /\ sentAfterRaise' = FALSE
    /\ failedIds' = {}
    /\ rounds' = 0
    /\ replaced' = EmptyResults
    /\ visited' = <<>>
    /\ unlocked' = {}
    /\ UNCHANGED <<gen, popgen, genome_ids, fitness, results, workers, stopLog>>
    /\ UNCHANGED netVars
    /\ UNCHANGED offMaster

\* the entry the loop of shutdown goes to after a send: "except: pass"
\* swallows the exception inside the loop body
NextEntry_StopOnFailure(o, k, n) == IF o = "raise" THEN n ELSE k + 1

NextEntry(o, k, n) == k + 1

\* one iteration: try: send_message(worker_socket, Message.SHUTDOWN);
\* worker_socket.close(); except: pass
Shutdown_Send ==
    /\ pc = "shutdown"
    /\ si < Len(workers)
    /\ LET w == workers[si + 1] IN
       \E o \in SendOutcomes(w) :
          /\ stopLog' = Append(stopLog,
                             [call |-> calls, worker |-> w, outcome |-> o])
          /\ released' = IF o = "ok" THEN released \cup {w} ELSE released
          /\ si' = NextEntry(o, si, Len(workers))
    /\ unlocked' = Touch("shutdown", LockHeld)
    /\ UNCHANGED <<serving, calls>>
    /\ UNCHANGED coordVars
    /\ UNCHANGED <<workers, conn, inflight, garbage, registrations>>
    /\ UNCHANGED roundGhosts
    /\ UNCHANGED offMaster

\* the loop is exhausted: the lock is released, self.server_socket.close()
Shutdown_End ==
    /\ pc = "shutdown"
    /\ si = Len(workers)
    /\ pc' = "stopped"
    /\ si' = 0
    /\ UNCHANGED <<gen, popgen, genome_ids, fitness, worker_list, i, poll_list,
                   j, results, expired>>
    /\ UNCHANGED <<serving, calls, stopLog>>
    /\ UNCHANGED <<workers, netVars, ghostVars>>
    /\ UNCHANGED offMaster

\* ---------------------------------------------------------------- wire protocol
masterVars == <<coordVars, workers, netVars, ghostVars, stopVars>>
offWire == <<masterVars, ackVars, agentVars>>

\* the frame send_message writes for its arguments
Body == Utf8Encode(CreateMessage(msg_type, data))

\* sock.sendall(length.to_bytes(4, 'big')); sendall raises when the
\* connection is gone
Send_Prefix ==
    /\ spc = "prefix"
    /\ IF closed
       THEN spc' = "failed" /\ UNCHANGED written
       ELSE spc' = "body" /\ written' = written \o ToBytes(Len(Body))
    /\ UNCHANGED <<msg_type, data, delivered, closed, rpc, consumed, length,
                   msg_bytes, ret, prefixSplit>>
    /\ UNCHANGED offWire

\* sock.sendall(msg_bytes)
Send_Body ==
    /\ spc = "body"
    /\ IF closed
       THEN spc' = "failed" /\ UNCHANGED written
       ELSE spc' = "sent" /\ written' = written \o Body
    /\ UNCHANGED <<msg_type, data, delivered, closed, rpc, consumed, length,
                   msg_bytes, ret, prefixSplit>>
    /\ UNCHANGED offWire

\* the transport hands the receiving socket one more byte
Deliver ==
    /\ ~closed
    /\ delivered < Len(written)
    /\ delivered' = delivered + 1
    /\ UNCHANGED <<msg_type, data, spc, written, closed, rpc, consumed, length,
                   msg_bytes, ret, prefixSplit>>
    /\ UNCHANGED offWire

\* the sending peer ends or the connection is lost
Close ==
    /\ ~closed
    /\ closed' = TRUE
    /\ UNCHANGED <<msg_type, data, spc, written, delivered, rpc, consumed,
                   length, msg_bytes, ret, prefixSplit>>
    /\ UNCHANGED offWire

\* sock.recv(n) on a blocking socket: up to n of the bytes that have
\* arrived, b'' at end-of-stream; it blocks while neither is there
Available == delivered - consumed
AtEof == closed /\ Available = 0
Min(a, b) == IF a < b THEN a ELSE b
Recv(n) == SubSeq(written, consumed + 1, consumed + Min(n, Available))

\* length_bytes = sock.recv(4); if not length_bytes: return None;
\* length = int.from_bytes(length_bytes, 'big'); msg_bytes = b''
Recv_Prefix ==
    /\ rpc = "prefix"
    /\ Available > 0 \/ AtEof
    /\ LET length_bytes == Recv(4) IN
       IF length_bytes = <<>>
       THEN /\ rpc' = "returned"
            /\ ret' = [out |-> "none", val |-> JLit("null"), err |-> "none"]
            /\ UNCHANGED <<consumed, length, prefixSplit>>
       ELSE /\ rpc' = "body"
            /\ consumed' = consumed + Len(length_bytes)
            /\ length' = FromBytes(length_bytes)
            /\ prefixSplit' = (Len(length_bytes) < 4)
            /\ UNCHANGED ret
    /\ UNCHANGED <<msg_type, data, spc, written, delivered, closed, msg_bytes>>
    /\ UNCHANGED offWire

\* one iteration of: while len(msg_bytes) < length:
\*     chunk = sock.recv(min(length - len(msg_bytes), 4096))
\*     if not chunk: return None
\*     msg_bytes += chunk
Recv_Body ==
    /\ rpc = "body"
    /\ Len(msg_bytes) < length
    /\ Available > 0 \/ AtEof
    /\ LET chunk == Recv(Min(length - Len(msg_bytes), 4096)) IN
       IF chunk = <<>>
       THEN /\ rpc' = "returned"
            /\ ret' = [out |-> "none", val |-> JLit("null"), err |-> "none"]
            /\ UNCHANGED <<consumed, msg_bytes>>
       ELSE /\ consumed' = consumed + Len(chunk)
            /\ msg_bytes' = msg_bytes \o chunk
            /\ UNCHANGED <<rpc, ret>>
    /\ UNCHANGED <<msg_type, data, spc, written, delivered, closed, length,
                   prefixSplit>>
    /\ UNCHANGED offWire

\* msg_str = msg_bytes.decode('utf-8'); return parse_message(msg_str)
Recv_Parse ==
    /\ rpc = "body"
    /\ Len(msg_bytes) >= length
    /\ rpc' = "returned"
    /\ ret' = IF ~Utf8Valid(msg_bytes)
              THEN [out |-> "raise", val |-> JLit("null"),
                    err |-> "UnicodeDecodeError"]
              ELSE LET v == JsonLoads(Utf8Decode(msg_bytes)) IN
                   IF v.ok THEN [out |-> "msg", val |-> v.val, err |-> "none"]
                   ELSE [out |-> "raise", val |-> JLit("null"),
                         err |-> "JSONDecodeError"]
    /\ UNCHANGED <<msg_type, data, spc, written, delivered, closed, consumed,
                   length, msg_bytes, prefixSplit>>
    /\ UNCHANGED offWire

WireInit ==
    /\ MasterInit
    /\ StopStart
    /\ AckStart
    /\ AgentStart
    /\ \E kind \in MessageKinds : \E payload \in Payloads :
          WireStart(kind, payload)

WireNext ==
    \/ Send_Prefix
    \/ Send_Body
    \/ Deliver
    \/ Close
    \/ Recv_Prefix
    \/ Recv_Body
    \/ Recv_Parse

WireSpec == WireInit /\ [][WireNext]_vars

\* the socket has a timeout (settimeout(0.1) in collect_results,
\* settimeout(1.0) in run): a recv for which nothing arrives in time
\* raises socket.timeout out of receive_message, whose length and msg_bytes
\* are lost; the caller catches it, continues its loop and calls
\* receive_message on the same socket again
Recv_Timeout ==
    /\ rpc \in {"prefix", "body"}
    /\ rpc = "body" => Len(msg_bytes) < length
    /\ Available = 0
    /\ ~closed
    /\ rpc' = "prefix"
    /\ length' = 0
    /\ msg_bytes' = <<>>
    /\ UNCHANGED <<msg_type, data, spc, written, delivered, closed, consumed,
                   ret, prefixSplit>>
    /\ UNCHANGED offWire

PollNext ==
    \/ WireNext
    \/ Recv_Timeout

\* the messages read with a timeout: RESULT by collect_results, TASK and
\* SHUTDOWN by run; the short payloads
PollInit ==
    /\ MasterInit
    /\ StopStart
    /\ AckStart
    /\ AgentStart
    /\ \E kind \in {Message_TASK, Message_RESULT, Message_SHUTDOWN} :
       \E payload \in {p \in Payloads : Len(JsonDumps(p)) <= 8} :
          WireStart(kind, payload)

\* one send_message and the polling receive_message calls of its reader
PollSpec == PollInit /\ [][PollNext]_vars

\* ---------------------------------------------------------------- accept thread, send by send
\* one sendall of send_message: the prefix or the body of a message
Piece(kind, part, payload) == [kind |-> kind, part |-> part, data |-> payload]

\* the data of the REGISTER acknowledgment
AckData == [status |-> "accepted", track_name |-> "track"]

\* while self.running: accept() returns the connection of a peer (a worker
\* whose earlier connection, if any, is gone); an accept that times out
\* after 1.0 s goes back to the loop test and changes nothing
Accept_Connect(w) ==
    /\ apc = "accept"
    /\ serving
    /\ conn[w] # "open"
    /\ registrations < MaxRegistrations
    /\ registrations' = registrations + 1
    /\ client' = w
    /\ apc' = "receive"
    /\ UNCHANGED <<coordVars, workers, conn, inflight, garbage, released,
                   ghostVars, worker_id, stream, tpc>>
    /\ UNCHANGED <<wireVars, agentVars, stopVars>>

\* receive_message(client_socket), on a socket in blocking mode, returns
\* the REGISTER of the peer once the peer has sent it
Accept_Register(w) ==
    /\ apc = "receive"
    /\ client = w
    /\ worker_id' = w
    /\ apc' = "insert"
    /\ UNCHANGED <<coordVars, workers, netVars, ghostVars, client, stream, tpc>>
    /\ UNCHANGED <<wireVars, agentVars, stopVars>>

\* receive_message returns None (the peer closed), another message, or
\* raises: nothing is registered, the thread goes back to the loop test
Accept_NoRegister ==
    /\ apc = "receive"
    /\ apc' = "accept"
    /\ UNCHANGED <<coordVars, workers, netVars, ghostVars, client, worker_id,
                   stream, tpc>>
    /\ UNCHANGED <<wireVars, agentVars, stopVars>>

\* with self.worker_lock: self.workers[worker_id] = client_socket
Accept_Insert ==
    /\ apc = "insert"
    /\ ~LockHeld
    /\ workers' = IF worker_id \in Range(workers) THEN workers
                  ELSE Append(workers, worker_id)
    /\ conn' = [conn EXCEPT ![worker_id] = "open"]
    /\ stream' = [stream EXCEPT ![worker_id] = <<>>]
    /\ released' = released \ {worker_id}
    /\ apc' = "ack_prefix"
    /\ UNCHANGED <<coordVars, inflight, garbage, registrations, ghostVars,
                   client, worker_id, tpc>>
    /\ UNCHANGED <<wireVars, agentVars, stopVars>>

\* send_message(client_socket, Message.REGISTER, {...}), one sendall per
\* step; an exception is printed and the thread goes back to accept()
Accept_Ack ==
    /\ apc \in {"ack_prefix", "ack_body"}
    /\ \E o \in SendOutcomes(worker_id) :
          IF o = "ok"
          THEN /\ stream' = [stream EXCEPT ![worker_id] = Append(@,
                     Piece("REGISTER",
                           IF apc = "ack_prefix" THEN "prefix" ELSE "body",
                           AckData))]
               /\ apc' = IF apc = "ack_prefix" THEN "ack_body" ELSE "accept"
          ELSE /\ apc' = "accept"
               /\ UNCHANGED stream
    /\ UNCHANGED <<coordVars, workers, netVars, ghostVars, client, worker_id,
                   tpc>>
    /\ UNCHANGED <<wireVars, agentVars, stopVars>>

\* while self.running is false: the thread ends
Accept_Exit ==
    /\ apc = "accept"
    /\ ~serving
    /\ apc' = "stopped"
    /\ UNCHANGED <<coordVars, workers, netVars, ghostVars, client, worker_id,
                   stream, tpc>>
    /\ UNCHANGED <<wireVars, agentVars, stopVars>>

\* one sendall of send_message(worker_socket, Message.TASK, {...}) in the
\* distribution loop; an exception runs del self.workers[worker_id]
Task_Send ==
    /\ pc = "dist"
    /\ i < PopSize
    /\ LET w == TargetWorker(worker_list, i) IN
       \E o \in SendOutcomes(w) :
          IF o = "ok"
          THEN /\ stream' = [stream EXCEPT ![w] = Append(@,
                     Piece("TASK", tpc,
                           TaskMsg(genome_ids[i], Genome(popgen, i))))]
               /\ tpc' = IF tpc = "prefix" THEN "body" ELSE "prefix"
               /\ i' = IF tpc = "prefix" THEN i ELSE i + 1
               /\ UNCHANGED <<pc, workers>>
          ELSE /\ tpc' = "prefix"
               /\ IF w \in Range(workers)
                  THEN /\ workers' = SeqRemove(workers, w)
                       /\ i' = i + 1
                       /\ UNCHANGED pc
                  ELSE /\ pc' = "crashed"
                       /\ UNCHANGED <<workers, i>>
               /\ UNCHANGED stream
    /\ UNCHANGED <<gen, popgen, genome_ids, fitness, worker_list, poll_list, j,
                   results, expired>>
    /\ UNCHANGED <<netVars, ghostVars, apc, client, worker_id>>
    /\ UNCHANGED <<wireVars, agentVars, stopVars>>

\* the worker's end of the connection goes away
Ack_ConnectionFails(w, how) ==
    /\ conn[w] = "open"
    /\ conn' = [conn EXCEPT ![w] = how]
    /\ UNCHANGED <<coordVars, workers, inflight, garbage, registrations,
                   released, ghostVars>>
    /\ UNCHANGED sideVars

\* the steps of the main thread
AckMain ==
    \/ StartTrain
    \/ Distribute_Begin
    \/ Task_Send
    \/ Distribute_End
    \/ Shutdown_Send
    \/ Shutdown_End

\* the steps the accept thread takes whatever its peer does
AcceptThread ==
    \/ Accept_Insert
    \/ Accept_Ack
    \/ Accept_Exit

AckNext ==
    \/ AckMain
    \/ Shutdown_Begin
    \/ AcceptThread
    \/ \E w \in Workers : Accept_Connect(w)
    \/ \E w \in Workers : Accept_Register(w)
    \/ Accept_NoRegister
    \/ \E w \in Workers : \E how \in {"closed", "broken"} :
          Ack_ConnectionFails(w, how)

AckSpec == Init /\ [][AckNext]_vars

\* both threads of the master keep running
AckLiveSpec ==
    Init /\ [][AckNext]_vars /\ WF_vars(AckMain) /\ WF_vars(AcceptThread)

\* ---------------------------------------------------------------- worker process
offAgent == <<masterVars, wireVars, ackVars>>

\* what the worker's socket can yield to one receive_message: the oldest
\* message written to it, else end-of-stream or an error, else a timeout
\* (run sets one of 1.0 s; connect blocks)
AgentReads(blocking) ==
    IF inbox # <<>> THEN {[kind |-> "frame", body |-> Head(inbox)]}
    ELSE IF wconn = "closed" THEN {[kind |-> "eof", body |-> NoMsg]}
    ELSE IF wconn = "broken" THEN {[kind |-> "error", body |-> NoMsg]}
    ELSE IF blocking THEN {}
    ELSE {[kind |-> "timeout", body |-> NoMsg]}

\* the master (or whoever holds the other end) writes one more message
FeedMsgs(id) ==
    AckMsgs \cup TaskMsgs(id)
    \cup {AgentMsg(k) : k \in {"SHUTDOWN", "HEARTBEAT", "undecodable",
                               "misshaped", "empty"}}

Feed(m) ==
    /\ wconn = "open"
    /\ wpc \in {"connect", "loop", "evaluate"}
    /\ fed < MaxInbox
    /\ fed' = fed + 1
    /\ inbox' = Append(inbox, m)
    /\ midEval' = (midEval \/ (m.type = "SHUTDOWN" /\ wpc = "evaluate"))
    /\ UNCHANGED <<wpc, running, wconn, wmsg, outbox, first_msg, log, last_read,
                   spin>>
    /\ UNCHANGED offAgent

\* the master closes the connection, or the connection breaks
Agent_ConnectionFails(how) ==
    /\ wconn = "open"
    /\ wpc \in {"connect", "loop", "evaluate"}
    /\ wconn' = how
    /\ inbox' = IF how = "broken" THEN <<>> ELSE inbox
    /\ UNCHANGED <<wpc, running, fed, wmsg, outbox, first_msg, log, last_read,
                   midEval, spin>>
    /\ UNCHANGED offAgent

\* msg['type'] == Message.REGISTER and msg['data']['status'] == 'accepted'
Accepted_AnyStatus(m) == m.type = "REGISTER"

Accepted(m) == m.type = "REGISTER" /\ m.status = "accepted"

\* connect after receive_message: "ok" for return True, "false" for return
\* False, "raise" for an exception (of receive_message, of msg['type'] on a
\* body without it, of msg['data']['status'] or msg['data']['track_name']
\* on a REGISTER without them)
ConnectOutcome(r) ==
    IF r.out = "raise" THEN "raise"
    ELSE IF r.out = "none" \/ ~Truthy(r.msg) THEN "false"
    ELSE IF r.msg.type = "misshaped" THEN "raise"
    ELSE IF r.msg.type = "REGISTER" /\ r.msg.status = "absent" THEN "raise"
    ELSE IF ~Accepted(r.msg) THEN "false"
    ELSE IF ~r.msg.track THEN "raise"
    ELSE "ok"

\* main: if worker.connect(): worker.run() else: sys.exit(1); an exception
\* is printed as fatal; both end in worker.shutdown(), which closes the
\* socket; run starts with self.running = True
Connect ==
    /\ wpc = "connect"
    /\ \E rd \in AgentReads(TRUE) :
          LET r == ReceiveMessage(rd)
              o == ConnectOutcome(r)
          IN  /\ first_msg' = IF rd.kind = "frame" THEN rd.body
                              ELSE AgentMsg(rd.kind)
              /\ inbox' = IF rd.kind = "frame" THEN Tail(inbox) ELSE inbox
              /\ wpc' = IF o = "ok" THEN "loop"
                        ELSE IF o = "false" THEN "failed" ELSE "fatal"
              /\ running' = (o = "ok")
              /\ wconn' = IF o = "ok" THEN wconn ELSE "shut"
    /\ UNCHANGED <<fed, wmsg, outbox, log, last_read, midEval, spin>>
    /\ UNCHANGED offAgent

\* self.running after run has received r: False after SHUTDOWN and after an
\* exception other than socket.timeout
KeepsRunning_Always(r) == TRUE

KeepsRunning(r) ==
    IF r.out \in {"timeout", "none"} THEN TRUE
    ELSE IF r.out = "raise" THEN FALSE
    ELSE IF ~Truthy(r.msg) THEN TRUE
    ELSE r.msg.type \notin {"misshaped", "SHUTDOWN"}

\* one iteration of the loop of run up to the evaluation: receive with the
\* 1.0 s timeout; None and a falsy body continue, a TASK is evaluated next
Run_Receive ==
    /\ wpc = "loop"
    /\ running
    /\ \E rd \in AgentReads(FALSE) :
          LET r == ReceiveMessage(rd) IN
          /\ last_read' = r.out
          /\ spin' = 1 - spin
          /\ inbox' = IF rd.kind = "frame" THEN Tail(inbox) ELSE inbox
          /\ log' = IF rd.kind = "frame" THEN Append(log, rd.body) ELSE log
          /\ running' = KeepsRunning(r)
          /\ IF r.out = "msg" /\ Truthy(r.msg) /\ r.msg.type = "TASK"
             THEN wpc' = "evaluate" /\ wmsg' = r.msg
             ELSE UNCHANGED <<wpc, wmsg>>
    /\ UNCHANGED <<wconn, fed, outbox, first_msg, midEval>>
    /\ UNCHANGED offAgent

\* outcomes of the worker's sendall
AgentSendOutcomes ==
    IF wconn = "open" THEN {"ok"}
    ELSE IF wconn = "broken" THEN {"raise"}
    ELSE {"ok", "raise"}

\* the TASK branch: deserialize_genome, evaluate_car_fitness, send RESULT;
\* any exception ends up in "except Exception: self.running = False"
Run_Evaluate ==
    /\ wpc = "evaluate"
    /\ wpc' = "loop"
    /\ wmsg' = NoMsg
    /\ IF wmsg.quality # "good"
       THEN running' = FALSE /\ UNCHANGED outbox
       ELSE \E o \in AgentSendOutcomes :
               IF o = "ok"
               THEN /\ outbox' = Append(outbox, WorkerAnswer(wmsg))
                    /\ UNCHANGED running
               ELSE running' = FALSE /\ UNCHANGED outbox
    /\ UNCHANGED <<wconn, inbox, fed, first_msg, log, last_read, midEval, spin>>
    /\ UNCHANGED offAgent

\* while self.running is false: run returns, main runs worker.shutdown(),
\* which closes the socket
Run_Exit ==
    /\ wpc = "loop"
    /\ ~running
    /\ wpc' = "exited"
    /\ wconn' = "shut"
    /\ UNCHANGED <<running, inbox, fed, wmsg, outbox, first_msg, log,
                   last_read, midEval, spin>>
    /\ UNCHANGED offAgent

AgentNext ==
    \/ \E m \in FeedMsgs(fed + 1) : Feed(m)
    \/ \E how \in {"closed", "broken"} : Agent_ConnectionFails(how)
    \/ Connect
    \/ Run_Receive
    \/ Run_Evaluate
    \/ Run_Exit

AgentSpec == Init /\ [][AgentNext]_vars

\* the steps of the worker process itself; it keeps running
AgentThread ==
    \/ Connect
    \/ Run_Receive
    \/ Run_Evaluate
    \/ Run_Exit

AgentLiveSpec == Init /\ [][AgentNext]_vars /\ WF_vars(AgentThread)

\* ---------------------------------------------------------------- specification
MainThread ==
    \/ StartTrain
    \/ Distribute_Begin
    \/ Distribute_Send
    \/ Distribute_End
    \/ Collect_Check
    \/ Collect_Poll
    \/ Advance
    \/ Finish

Next ==
    \/ MainThread
    \/ Tick
    \/ \E w \in Workers : Register(w)
    \/ \E w \in Workers : \E how \in {"closed", "broken"} : ConnectionFails(w, how)

Spec == Init /\ [][Next]_vars

\* the phases of one generation: main and train up to the return of the
\* first collect_results, with the accept thread and the network
RoundMain ==
    \/ StartTrain
    \/ Distribute_Begin
    \/ Distribute_Send
    \/ Distribute_End
    \/ Collect_Check
    \/ Collect_Poll

RoundNext ==
    \/ RoundMain
    \/ Tick
    \/ \E w \in Workers : Register(w)
    \/ \E w \in Workers : \E how \in {"closed", "broken"} : ConnectionFails(w, how)

\* main with its finally clause
StopNext ==
    \/ Next
    \/ Shutdown_Begin
    \/ Shutdown_Send
    \/ Shutdown_End

StopSpec == Init /\ [][StopNext]_vars

\* the main thread keeps running and the clock keeps advancing
LiveSpec == Init /\ [][RoundNext]_vars /\ WF_vars(RoundMain) /\ WF_vars(Tick)

\* ---------------------------------------------------------------- claims
\* the distribution loop has sent or failed every task; its locals are
\* still in scope
RoundComplete == pc = "dist" /\ i = PopSize

C2_SendFailureContained ==
    /\ pc # "crashed"
    /\ pc = "dist" =>
          LET W == Len(worker_list) IN
          /\ \A w \in sendFailed : w \notin Range(workers)
          /\ \A k \in 0..(i - 1) :
                worker_list[(k % W) + 1] \notin sendFailed =>
                   \E m \in 1..Len(sentLog) :
                      /\ sentLog[m].task = k
                      /\ sentLog[m].worker = worker_list[(k % W) + 1]
          /\ \A m \in 1..Len(sentLog) :
                sentLog[m].worker = worker_list[(sentLog[m].task % W) + 1]

\* C3: no TASK send is attempted on a worker whose connection has raised,
\* in the same round or later, unless the worker registered again.
C3_NoSendAfterRaise == ~sentAfterRaise

\* C4: a worker whose connection failed or was closed after it was sent its
\* tasks, and whose failure a receive of the collection met, is absent from
\* the registry when collect_results returns.
C4_LostWorkerEvicted ==
    pc = "advance" =>
        \A w \in Workers : loss[w] = "seen" => w \notin Range(workers)

\* C5: a worker from whose connection the collection read a malformed body
\* (undecodable or wrongly shaped) is removed from the registry; the pass
\* goes on with the next worker of the snapshot (Collect_Poll has no other
\* exit).
C5_MalformedEvicted == \A w \in malformedFrom : w \notin Range(workers)

\* C6: when only K < N RESULT messages for the generation's tasks arrive,
\* the collection ends by the deadline with exactly K results recorded and
\* fitness 0.0 for each of the other N-K tasks.
C6_DeadlineKeepsK ==
    (pc = "advance" /\ Cardinality(arrived) < PopSize) =>
        /\ endedBy = "deadline"
        /\ Cardinality(DOMAIN results) = Cardinality(arrived)
        /\ \A t \in Tasks \ arrived : fitness[t] = 0

\* C7: the collection phase always ends, whatever the workers do: enough
\* results are recorded or the deadline has elapsed.
InCollect == pc \in {"check", "poll"}

C7_CollectTerminates == InCollect ~> (pc = "advance")

C7_Witness ==
    /\ pc = "advance"
    /\ endedBy = "deadline"
    /\ workers = <<>>
    /\ garbage > 0

\* C8: the result set never holds more entries than the generation has
\* tasks, and it is empty when a distribution starts sending.
C8_ResultsBounded ==
    /\ Cardinality(DOMAIN results) <= PopSize
    /\ (pc = "dist" /\ i = 0) => results = EmptyResults

\* C9: task ids are unique within a generation and scoped to it, so the
\* fitness a task is given comes from a RESULT computed for that task.
C9_IdsGenerationScoped ==
    /\ \A s, t \in Tasks : s # t => genome_ids[s] # genome_ids[t]
    /\ pc = "advance" =>
          \A t \in Tasks :
             fitness[t] \in {0, EvaluateFitness(Genome(popgen, t))}

\* C10: when collect_results returns, every task has the fitness of the
\* recorded result for its id, or 0.0 when its id has no recorded result;
\* none is unset.
C10_EveryTaskHasFitness ==
    pc = "advance" =>
        \A t \in Tasks :
           /\ fitness[t] # Unset
           /\ genome_ids[t] \in DOMAIN results =>
                 fitness[t] = results[genome_ids[t]]
           /\ genome_ids[t] \notin DOMAIN results => fitness[t] = 0

C10_Witness ==
    /\ pc = "advance"
    /\ popgen >= 1
    /\ \E t \in Tasks : genome_ids[t] \in DOMAIN results
    /\ \E t \in Tasks : genome_ids[t] \notin DOMAIN results

\* C11: a task whose recorded RESULT reports success = false has fitness
\* 0.0 when collect_results returns, whatever fitness that RESULT carries.
C11_FailedResultIsZero ==
    pc = "advance" =>
        \A t \in Tasks : genome_ids[t] \in failedIds => fitness[t] = 0

\* C12: a distribution that finds no registered worker sends no TASK and
\* the generation is tried again: train(G) ends only after G generations
\* have each gone through distribute, collect and advance.
C12_EmptyRegistryRetries ==
    /\ (pc = "dist" /\ i = 0) => worker_list # <<>>
    /\ pc = "done" => rounds = Generations

\* the stream ended before the whole frame of the message had arrived
Truncated == closed /\ delivered < 4 + Len(Body)

\* receive_message returned the message that was sent: same kind, equal payload
ReturnedOriginal ==
    /\ ret.out = "msg"
    /\ HasKey(ret.val, Key_type) /\ Get(ret.val, Key_type) = JStr(msg_type)
    /\ HasKey(ret.val, Key_data) /\ Get(ret.val, Key_data) = data

\* C13: for every kind and every mapping payload, receive_message returns
\* from the bytes send_message wrote (the whole frame, each recv returning
\* what it asked for) the same kind and an equal payload, and the 4 prefix
\* bytes are the big-endian byte length of the UTF-8 body.
C13_RoundTrip ==
    /\ spc = "sent" =>
          /\ Len(written) >= 4
          /\ 16777216 * written[1] + 65536 * written[2] + 256 * written[3]
                + written[4] = Len(written) - 4
          /\ \A k \in 1..4 : written[k] \in 0..255
    /\ (rpc = "returned" /\ ~Truncated /\ ~prefixSplit) => ReturnedOriginal

C13_Witness ==
    /\ rpc = "returned"
    /\ ~prefixSplit
    /\ ReturnedOriginal
    /\ msg_type = Message_TASK
    /\ Len(data.obj) = 2
    /\ closed

\* C14: receive_message reconstructs the original message for every way of
\* splitting the frame into non-empty chunks delivered by successive reads,
\* splits inside the 4-byte prefix included.
C14_ChunkIndependent == (rpc = "returned" /\ ~Truncated) => ReturnedOriginal

\* C15: when the stream ends before 4 prefix bytes or before the declared
\* body bytes have arrived, receive_message ends with a ConnectionClosed
\* failure, not with "no message" and never with a message.
C15_EofIsFailure ==
    (rpc = "returned" /\ Truncated /\ consumed = delivered) =>
        /\ ret.out = "raise"
        /\ ret.err = "ConnectionClosed"

\* the first frame a receive_message on w's connection gets: the kind of the
\* first message when its prefix is followed by its own body
FirstFrame(w) ==
    IF /\ stream[w][1].part = "prefix"
       /\ stream[w][2] = [stream[w][1] EXCEPT !.part = "body"]
    THEN stream[w][1].kind ELSE "corrupt"

\* C16: the bytes written on a connection are a concatenation of whole
\* frames: every prefix is followed by the body of its own message, for any
\* interleaving of the accept thread and the generation thread.
C16_WholeFrames ==
    \A w \in Workers : \A k \in DOMAIN stream[w] :
       /\ (k % 2 = 1) => stream[w][k].part = "prefix"
       /\ (k % 2 = 0) => stream[w][k] = [stream[w][k - 1] EXCEPT !.part = "body"]

\* C17: the first message written to a registered worker is the REGISTER
\* acknowledgment with status accepted; no TASK is written before it, so
\* the first frame the worker reads is the acknowledgment.
C17_AckFirst ==
    \A w \in Workers :
       /\ \A k \in DOMAIN stream[w] :
             stream[w][k].kind = "TASK" =>
                \E m \in 1..(k - 1) :
                   stream[w][m] = Piece("REGISTER", "body", AckData)
       /\ Len(stream[w]) >= 2 => FirstFrame(w) = "REGISTER"

\* C18: the worker's connect step succeeds only on a REGISTER
\* acknowledgment with status accepted; when the connection closes first or
\* the first message is anything else it fails: the worker never enters the
\* task loop and sends no RESULT.
C18_ConnectNeedsAck ==
    LET acked == first_msg.type = "REGISTER" /\ first_msg.status = "accepted"
    IN  /\ wpc \in {"loop", "evaluate", "exited"} => acked
        /\ (first_msg.type # "pending" /\ ~acked) =>
              /\ wpc \in {"failed", "fatal"}
              /\ ~running
              /\ log = <<>>
              /\ outbox = <<>>

C18_Witness ==
    /\ wpc = "failed"
    /\ first_msg.type = "REGISTER"
    /\ first_msg.status = "rejected"
    /\ first_msg.track
    /\ inbox # <<>>

\* C19: for every TASK whose payload fails to decode or whose evaluation
\* raises, the worker sends a RESULT with that task's id and success =
\* false and stays in its loop.
C19_BadTaskAnswered ==
    \A k \in DOMAIN log :
       (/\ log[k].type = "TASK"
        /\ log[k].quality # "good"
        /\ k < Len(log) \/ wpc # "evaluate"
        /\ wconn = "open") =>
          /\ \E n \in DOMAIN outbox :
                /\ outbox[n].genome_id = log[k].genome_id
                /\ outbox[n].success = "false"
          /\ k = Len(log) => running

\* C20: once run has received SHUTDOWN it receives nothing more and its
\* loop ends; a receive that times out leaves the loop running and sends
\* nothing; the loop is not ended during an evaluation, and every TASK
\* received before the SHUTDOWN has its RESULT sent before the SHUTDOWN is
\* acted on.
ShutdownLast ==
    /\ \A k \in DOMAIN log :
          log[k].type = "SHUTDOWN" => (k = Len(log) /\ ~running)
    /\ wpc = "evaluate" => running
    /\ (log # <<>> /\ log[Len(log)].type = "SHUTDOWN") =>
          \A k \in DOMAIN log :
             (log[k].type = "TASK" /\ log[k].quality = "good") =>
                \E n \in DOMAIN outbox : outbox[n].genome_id = log[k].genome_id

TimeoutContinues ==
    (wpc = "loop" /\ running /\ last_read' = "timeout") =>
        (running' /\ wpc' = "loop" /\ outbox' = outbox /\ log' = log)

C20_ShutdownEndsLoop == []ShutdownLast /\ [][TimeoutContinues]_vars

C20_Witness ==
    /\ wpc = "exited"
    /\ midEval
    /\ log[Len(log)].type = "SHUTDOWN"
    /\ outbox # <<>>
    /\ last_read = "msg"

\* the master's end is closed or the connection is broken while the worker
\* is in its loop, and no SHUTDOWN was written to the worker
DeadConnection ==
    /\ wconn \in {"closed", "broken"}
    /\ wpc \in {"loop", "evaluate"}
    /\ \A k \in DOMAIN inbox : inbox[k].type # "SHUTDOWN"
    /\ \A k \in DOMAIN log : log[k].type # "SHUTDOWN"

\* C21: when the master's end of the connection is closed or the connection
\* breaks while the worker is in its loop, with no SHUTDOWN delivered, the
\* loop of run eventually exits, the socket is closed and control returns
\* to the caller.
C21_DeadConnectionExits == DeadConnection ~> (wpc = "exited" /\ wconn = "shut")

\* the SHUTDOWN sends the latest call of shutdown has attempted
SentByCall == SelectSeq(stopLog, LAMBDA e : e.call = calls)

\* C24: shutdown() completes without raising for every registry content:
\* it attempts one SHUTDOWN send per registered worker, in registry order
\* (none when the registry is empty), a failing send is swallowed and the
\* remaining workers are still sent to, and a second call completes too.
C24_ShutdownCompletes ==
    /\ pc = "shutdown" => ENABLED (Shutdown_Send \/ Shutdown_End)
    /\ pc = "stopped" =>
          /\ ~serving
          /\ Len(SentByCall) = Len(workers)
          /\ \A k \in DOMAIN SentByCall : SentByCall[k].worker = workers[k]

C24_Witness ==
    /\ pc = "stopped"
    /\ calls = 2
    /\ Len(stopLog) = 4
    /\ stopLog[1].outcome = "raise"
    /\ stopLog[2].outcome = "ok"

\* C22: the accept loop comes back to its test of self.running from every
\* state, whatever a connected peer does or leaves undone, and ends once
\* shutdown has cleared the flag.
C22_AcceptLoopBounded ==
    /\ []<>(apc \in {"accept", "stopped"})
    /\ (~serving) ~> (apc = "stopped")

\* C23: removing a worker is idempotent and complete: removing an id that
\* is already absent raises no error, and a worker removed after a failure
\* has had its socket closed.
C23_EvictionIdempotent ==
    /\ pc # "crashed"
    /\ \A w \in raised : w \in released

\* the recorded fitness of an id that got a further RESULT is the later one
ReplacedIsLatest ==
    \A id \in DOMAIN replaced :
       id \in DOMAIN results /\ results[id] = replaced[id]

\* a RESULT for an id already recorded adds no entry
DuplicateKeepsCount ==
    (replaced' # replaced /\ replaced' # EmptyResults) =>
        /\ DOMAIN results' = DOMAIN results
        /\ Cardinality(DOMAIN results') = Cardinality(DOMAIN results)

\* C25: a second RESULT for an id that already has a recorded result
\* replaces the recorded fitness by the later one and leaves the number of
\* recorded results unchanged, so a duplicate never brings the count to N.
C25_DuplicateOverwrites == []ReplacedIsLatest /\ [][DuplicateKeepsCount]_vars

C25_Witness ==
    /\ pc \in {"check", "poll"}
    /\ Cardinality(DOMAIN results) < PopSize
    /\ \E t \in Tasks :
          /\ genome_ids[t] \in DOMAIN replaced
          /\ replaced[genome_ids[t]] = EvaluateFitness(Genome(popgen, t))
          /\ results[genome_ids[t]] = EvaluateFitness(Genome(popgen, t))

\* the order of the positions of train
PhaseOrder ==
    <<pc, pc'>> \in {<<"wait", "idle">>, <<"idle", "idle">>, <<"idle", "dist">>,
                     <<"dist", "dist">>, <<"dist", "crashed">>,
                     <<"dist", "check">>, <<"check", "check">>,
                     <<"check", "poll">>, <<"poll", "poll">>,
                     <<"poll", "check">>, <<"check", "advance">>,
                     <<"advance", "idle">>, <<"idle", "done">>}
       \cup {<<p, p>> : p \in {"wait", "crashed", "advance", "done"}}

\* collection starts only when every task was sent or its send failed
CollectAfterDistribute ==
    (pc = "dist" /\ pc' = "check") =>
        /\ Len(visited) = PopSize
        /\ \A t \in Tasks :
              \/ \E m \in DOMAIN sentLog : sentLog[m].task = t
              \/ visited[t + 1] \in sendFailed

\* run_generation is invoked only when every genome has its fitness
AdvanceAfterAssign ==
    (popgen' # popgen) =>
        /\ pc = "advance"
        /\ \A t \in Tasks :
              /\ fitness[t] # Unset
              /\ fitness[t] = DictGet(results, genome_ids[t], 0)

\* a distribution starts only when every collected generation has advanced
DistributeAfterAdvance ==
    (pc = "idle" /\ pc' = "dist") => (popgen = rounds /\ gen' = gen)

\* C26: a generation whose distribution succeeded goes through distribute,
\* collect, assign fitness, advance in this order: collection starts only
\* after every TASK was sent or failed, run_generation runs only after every
\* task has its fitness, and the next distribution starts only after that.
C26_PhaseOrder ==
    [][PhaseOrder /\ CollectAfterDistribute /\ AdvanceAfterAssign
         /\ DistributeAfterAdvance]_vars

C26_Witness ==
    /\ pc = "dist"
    /\ gen = 1
    /\ rounds = 1
    /\ popgen = 1
    /\ i = 1

\* C27: every read and every mutation of the worker registry, by the accept
\* thread, by distribution, collection and shutdown and by the startup wait
\* of main for the first worker, happens while its thread holds the
\* registry lock.
C27_RegistryUnderLock == unlocked = {}

\* the visits of a round follow the snapshot taken at its start, also after
\* removals; no TASK goes to a worker outside the snapshot; the visits of a
\* polling pass are a prefix of its snapshot
VisitsFollowSnapshot ==
    /\ pc \in {"dist", "crashed"} =>
          /\ Len(visited) \in {i, i + 1}
          /\ pc = "dist" => Len(visited) = i
          /\ \A k \in DOMAIN visited :
                visited[k] = worker_list[((k - 1) % Len(worker_list)) + 1]
          /\ \A m \in DOMAIN sentLog : sentLog[m].worker \in Range(worker_list)
    /\ pc = "poll" => visited = SubSeq(poll_list, 1, j)

\* a polling pass ends when it has visited every worker of its snapshot
PassVisitsAll == (pc = "poll" /\ pc' = "check") => visited' = poll_list

\* C28: distribution and each polling pass iterate over a point-in-time
\* copy of the registry: a removal or registration during the round or
\* pass does not change the workers visited in it and breaks no iteration,
\* and a worker that is not in the snapshot receives no task of the round.
C28_SnapshotIteration == []VisitsFollowSnapshot /\ [][PassVisitsAll]_vars

C28_Witness ==
    /\ pc = "dist"
    /\ worker_list = <<1, 2>>
    /\ workers = <<2>>
    /\ visited = <<1, 2>>
    /\ Len(sentLog) = 1

\* the bytes consumed so far are no frame or a whole frame
AtFrameBoundary == consumed = 0 \/ consumed = 4 + Len(Body)

\* C29: a receive that times out leaves the connection at a frame
\* boundary, also when the prefix or part of the body was already
\* consumed: every receive_message starts at a frame boundary and every
\* message it returns is the message the peer sent.
C29_TimeoutKeepsFraming ==
    /\ rpc = "prefix" => AtFrameBoundary
    /\ ret.out = "msg" => ReturnedOriginal

\* C30: collect_results ends before the deadline only when every task of
\* the current generation has a recorded result: a RESULT whose id is no id
\* of a current task does not count towards the N results that end the
\* phase and does not change the fitness of a current task.
C30_EarlyEndNeedsAll ==
    pc = "advance" =>
        /\ endedBy = "complete" =>
              \A t \in Tasks : genome_ids[t] \in DOMAIN results
        /\ \A t \in Tasks :
              genome_ids[t] \notin DOMAIN results => fitness[t] = 0

====
